---- MODULE Spec2Model ----
(***************************************************************************)
(* Model of the research-assistant workflow of app/backend:                *)
(*   research_graph.py   the report-level graph and its nodes              *)
(*   analyst_subgraph.py create_analysts, human_feedback, should_continue  *)
(*   research_schema.py  ResearchGraphState (the channels and reducers)    *)
(* Texts are sequences of one-character strings, so that the string        *)
(* surgery of finalize_report (startswith, strip, in, split, +) is         *)
(* computed character by character.                                        *)
(***************************************************************************)
EXTENDS Naturals, Sequences, FiniteSets, Bags, TLC

VARIABLES
    topic,                  \* ResearchGraphState.topic
    max_analysts,           \* ResearchGraphState.max_analysts
    human_analyst_feedback, \* ResearchGraphState.human_analyst_feedback
    analysts,               \* ResearchGraphState.analysts
    sections,               \* ResearchGraphState.sections (operator.add)
    introduction,           \* ResearchGraphState.introduction
    content,                \* ResearchGraphState.content
    conclusion,             \* ResearchGraphState.conclusion
    final_report,           \* ResearchGraphState.final_report
    written,                \* the keys of the state that hold a value
    next,                   \* the nodes the checkpoint names as next to run
    mode,                   \* "running" | "suspended" | "ended" | "failed"
    sends,                  \* the Send packets of the fan-out
    memos,                  \* per Send: the finished interview's pending write
    generated,              \* the last structured response of the model
    lastStep,               \* the step executed last
    fanouts,                \* how many times the fan-out was dispatched
    completion,             \* the interviews in the order they completed
    previous                \* the panel the last create_analysts replaced

vars == <<topic, max_analysts, human_analyst_feedback, analysts, sections,
          introduction, content, conclusion, final_report, written, next,
          mode, sends, memos, generated, lastStep, fanouts, completion,
          previous>>

fields == <<topic, max_analysts, human_analyst_feedback, analysts, sections,
            introduction, content, conclusion, final_report, written>>

(***************************************************************************)
(* Bounds of the model.                                                    *)
(***************************************************************************)
\* longest panel the language model returns
MaxPanel == 3
\* largest max_analysts a run is started with
MaxAnalystsArg == 2
\* longest generated body / sources text of a report
MaxBody == 2

(***************************************************************************)
(* Texts.                                                                  *)
(***************************************************************************)
NL == "\n"

\* "## Insights"
INSIGHTS == <<"#", "#", " ", "I", "n", "s", "i", "g", "h", "t", "s">>

\* "## Sources"
SOURCES == <<"#", "#", " ", "S", "o", "u", "r", "c", "e", "s">>

\* "\n## Sources\n"
SOURCES_SPLIT == <<NL>> \o SOURCES \o <<NL>>

\* "\n\n---\n\n"
SEPARATOR == <<NL, NL, "-", "-", "-", NL, NL>>

\* "\n\n---\n\n## Sources\n\n"
SOURCES_TAIL == SEPARATOR \o SOURCES \o <<NL, NL>>

\* the characters of a text, as str.strip(chars) reads its argument
CharsOf(s) == {s[i] : i \in DOMAIN s}

\* a faulty variant: the guard of the strip is dropped
startswith_always(s, p) == TRUE

\* str.startswith
startswith(s, p) ==
    /\ Len(p) <= Len(s)
    /\ SubSeq(s, 1, Len(p)) = p

\* a faulty variant: the rightmost occurrence is found
find_last(s, sub) ==
    LET hits == {i \in 1..(Len(s) + 1) :
                    /\ i + Len(sub) - 1 <= Len(s)
                    /\ SubSeq(s, i, i + Len(sub) - 1) = sub}
    IN  IF hits = {} THEN 0 ELSE CHOOSE i \in hits : \A j \in hits : i >= j

\* str.find, 1-based; 0 when sub does not occur
find(s, sub) ==
    LET hits == {i \in 1..(Len(s) + 1) :
                    /\ i + Len(sub) - 1 <= Len(s)
                    /\ SubSeq(s, i, i + Len(sub) - 1) = sub}
    IN  IF hits = {} THEN 0 ELSE CHOOSE i \in hits : \A j \in hits : i <= j

\* sub in s
contains(s, sub) == find(s, sub) # 0

RECURSIVE lstrip(_, _)
lstrip(s, chars) ==
    IF s # <<>> /\ Head(s) \in chars THEN lstrip(Tail(s), chars) ELSE s

RECURSIVE rstrip(_, _)
rstrip(s, chars) ==
    IF s # <<>> /\ s[Len(s)] \in chars
    THEN rstrip(SubSeq(s, 1, Len(s) - 1), chars)
    ELSE s

\* a faulty variant: only the leading characters are removed
strip_leading_only(s, chars) == lstrip(s, chars)

\* str.strip(chars): removes leading and trailing characters of the set
strip(s, chars) == rstrip(lstrip(s, chars), chars)

\* a faulty variant: split(sep, 1), which cuts at the first occurrence only
split_once(s, sep) ==
    LET hits == {i \in 1..(Len(s) + 1) :
                    /\ i + Len(sep) - 1 <= Len(s)
                    /\ SubSeq(s, i, i + Len(sep) - 1) = sep}
        i == CHOOSE i \in hits : \A j \in hits : i <= j
    IN  IF hits = {}
        THEN <<s>>
        ELSE <<SubSeq(s, 1, i - 1), SubSeq(s, i + Len(sep), Len(s))>>

RECURSIVE split(_, _)
\* str.split(sep): the parts between the occurrences of sep, left to right
split(s, sep) ==
    LET i == find(s, sep)
    IN  IF i = 0
        THEN <<s>>
        ELSE <<SubSeq(s, 1, i - 1)>>
                 \o split(SubSeq(s, i + Len(sep), Len(s)), sep)

(***************************************************************************)
(* Values of the state.  A text value is tagged with its Python type: the  *)
(* chat model's invoke returns an AIMessage, whose .content is a str.      *)
(***************************************************************************)
Str(t) == [kind |-> "str", text |-> t]

AIMessage(t) == [kind |-> "AIMessage", text |-> t]

\* the value of a key nothing has written
Unset == [kind |-> "unset", text |-> <<>>]

\* None, and the feedback strings of the reviewer
NoneValue == "<None>"

Feedbacks == {NoneValue, "", "Add in the CEO of gen ai native startup"}

\* state.get("human_analyst_feedback", "")
get_feedback(keys, value) ==
    IF "human_analyst_feedback" \in keys THEN value ELSE ""

\* the feedback the gate reads in the current state
Feedback == get_feedback(written, human_analyst_feedback)

(***************************************************************************)
(* finalize_report, the function of its three inputs.                      *)
(***************************************************************************)
finalize_text(c, intro, concl) ==
    LET \* content.strip("## Insights") when content.startswith("## Insights")
        stripped == IF startswith(c, INSIGHTS)
                    THEN strip(c, CharsOf(INSIGHTS))
                    ELSE c
        \* content.split("\n## Sources\n"); unpacking needs exactly two parts
        parts == split(stripped, SOURCES_SPLIT)
        unpacked == contains(stripped, SOURCES) /\ Len(parts) = 2
        body == IF unpacked THEN parts[1] ELSE stripped
        report == intro \o SEPARATOR \o body \o SEPARATOR \o concl
    IN  IF unpacked THEN report \o SOURCES_TAIL \o parts[2] ELSE report


(***************************************************************************)
(* The collaborators: the structured call that returns the panel, the      *)
(* chat call that returns a completion, and the interview sub-graph.       *)
(***************************************************************************)
Topics == {"X"}

\* the personas the language model draws its panels from
Analysts == {"analyst_a", "analyst_b"}

\* structured_llm.invoke: any panel, whatever max_analysts asked for
Perspectives == UNION {[1..n -> Analysts] : n \in 0..MaxPanel}

\* the memo an interview writes to sections
Memos == {"M1 [1]", "M2 [1]"}

\* "Intro", "Concl", "Body", "[1] A"
Intro == <<"I", "n", "t", "r", "o">>

Concl == <<"C", "o", "n", "c", "l">>

Body == <<"B", "o", "d", "y">>

SourceA == <<"[", "1", "]", " ", "A">>

\* the report of the spec's example: "## Insights\nBody\n## Sources\n[1] A"
ExampleContent == INSIGHTS \o <<NL>> \o Body \o SOURCES_SPLIT \o SourceA

\* llm.invoke of write_report, write_introduction, write_conclusion
ReportCompletions == {AIMessage(ExampleContent), AIMessage(Body)}

IntroCompletions == {AIMessage(Intro)}

ConclCompletions == {AIMessage(Concl)}

(***************************************************************************)
(* The graph: its edges, its interrupt and its reducers.                   *)
(***************************************************************************)
\* a faulty variant: the graph is compiled without its interrupt
interrupt_before_nothing == {}

\* builder.compile(checkpointer=memory, interrupt_before=["human_feedback"])
interrupt_before == {"human_feedback"}

\* builder.add_edge("conduct_interview", ...): the three writers
writers == {"write_report", "write_introduction", "write_conclusion"}

\* a faulty variant: the last writer wins
last_write_wins(a, b) == b

\* sections: Annotated[list, operator.add]
operator_add(a, b) == a \o b

\* a faulty variant: the new panel is appended to the old one
append_panel(old, new) == old \o new

\* analysts: List[Analyst], a channel without reducer: the update replaces it
last_value(old, new) == new

\* Send("conduct_interview", {"analyst": analyst, "messages": [...]})
Send(analyst, t) ==
    [node |-> "conduct_interview",
     arg |-> [analyst |-> analyst,
              messages |-> <<[type |-> "human", about |-> t]>>]]

\* a faulty variant: None counts as feedback
truthy_unless_empty(v) == v # ""

\* bool(human_analyst_feedback)
truthy(v) == v \notin {NoneValue, ""}

\* a faulty variant: the interview of the last analyst is not dispatched
initiate_all_but_last(keys, fb, panel, t) ==
    IF truthy(get_feedback(keys, fb))
    THEN [goto |-> "create_analysts", sends |-> <<>>]
    ELSE [goto |-> "conduct_interview",
          sends |-> [i \in 1..(IF Len(panel) = 0 THEN 0 ELSE Len(panel) - 1)
                        |-> Send(panel[i], t)]]

\* the conditional edge of human_feedback
initiate_all_interviews(keys, fb, panel, t) ==
    IF truthy(get_feedback(keys, fb))
    THEN [goto |-> "create_analysts", sends |-> <<>>]
    ELSE [goto |-> "conduct_interview",
          sends |-> [i \in 1..Len(panel) |-> Send(panel[i], t)]]

\* an interview that has not written yet
NoMemo == [done |-> FALSE, memo |-> ""]

\* what the checkpoint holds once the conditional edge has answered
Dispatch(route) ==
    IF route.goto = "create_analysts"
    THEN /\ next' = {"create_analysts"}
         /\ mode' = "running"
         /\ UNCHANGED <<sends, memos, fanouts, completion>>
    ELSE /\ sends' = route.sends
         /\ memos' = [i \in 1..Len(route.sends) |-> NoMemo]
         /\ completion' = <<>>
         /\ fanouts' = fanouts + 1
         /\ next' = IF route.sends = <<>> THEN {} ELSE {"conduct_interview"}
         /\ mode' = IF route.sends = <<>> THEN "ended" ELSE "running"


(***************************************************************************)
(* The nodes.                                                              *)
(***************************************************************************)
\* a faulty variant: create_analysts also returns a cleared feedback
create_analysts_clearing ==
    /\ mode = "running"
    /\ next = {"create_analysts"}
    /\ \E response \in Perspectives :
        /\ generated' = response
        /\ previous' = analysts
        /\ analysts' = last_value(analysts, response)
        /\ human_analyst_feedback' = NoneValue
        /\ written' = written \cup {"analysts", "human_analyst_feedback"}
        /\ lastStep' = "create_analysts"
        /\ next' = {"human_feedback"}
        /\ mode' = "suspended"
    /\ UNCHANGED <<topic, max_analysts, sections, introduction, content,
                   conclusion, final_report, sends, memos, fanouts,
                   completion>>

\* create_analysts, and the interrupt the loop raises before human_feedback
create_analysts ==
    /\ mode = "running"
    /\ next = {"create_analysts"}
    /\ \E response \in Perspectives :
        /\ generated' = response
        /\ previous' = analysts
        /\ analysts' = last_value(analysts, response)
        /\ written' = written \cup {"analysts"}
        /\ lastStep' = "create_analysts"
        /\ IF "human_feedback" \in interrupt_before
           THEN /\ next' = {"human_feedback"}
                /\ mode' = "suspended"
                /\ UNCHANGED <<sends, memos, fanouts, completion>>
           ELSE Dispatch(initiate_all_interviews(
                    written, human_analyst_feedback, analysts', topic))
    /\ UNCHANGED <<topic, max_analysts, human_analyst_feedback, sections,
                   introduction, content, conclusion, final_report>>

\* graph.update_state(thread, {"human_analyst_feedback": fb},
\* as_node="human_feedback"), then graph.stream(None, thread)
update_state ==
    /\ mode = "suspended"
    /\ next = {"human_feedback"}
    /\ \E fb \in Feedbacks :
        LET route == initiate_all_interviews(
                         written \cup {"human_analyst_feedback"}, fb,
                         analysts, topic)
        IN  /\ human_analyst_feedback' = fb
            /\ written' = written \cup {"human_analyst_feedback"}
            /\ previous' = IF route.goto = "create_analysts"
                           THEN previous ELSE <<>>
            /\ Dispatch(route)
    /\ lastStep' = "update_state"
    /\ UNCHANGED <<topic, max_analysts, analysts, sections, introduction,
                   content, conclusion, final_report, generated>>

\* graph.stream(None, thread) at the interrupt: human_feedback runs (a no-op
\* node) and its conditional edge reads the state as it is
human_feedback ==
    /\ mode = "suspended"
    /\ next = {"human_feedback"}
    /\ LET route == initiate_all_interviews(
                        written, human_analyst_feedback, analysts, topic)
       IN  /\ previous' = IF route.goto = "create_analysts"
                          THEN previous ELSE <<>>
           /\ Dispatch(route)
    /\ lastStep' = "human_feedback"
    /\ UNCHANGED <<fields, generated>>

\* the writes of the finished interviews, merged in the order of the Sends
RECURSIVE merged(_, _, _)
merged(acc, done, i) ==
    IF i > Len(done)
    THEN acc
    ELSE merged(operator_add(acc, <<done[i].memo>>), done, i + 1)

\* conduct_interview for the i-th Send; once the last interview of the
\* superstep is done its writes are applied and the three writers are next
conduct_interview ==
    /\ mode = "running"
    /\ next = {"conduct_interview"}
    /\ \E i \in DOMAIN sends, memo \in Memos :
        /\ ~memos[i].done
        /\ memos' = [memos EXCEPT ![i] = [done |-> TRUE, memo |-> memo]]
        /\ completion' = Append(completion, i)
        /\ IF \A j \in DOMAIN sends : memos'[j].done
           THEN /\ sections' = merged(sections, memos', 1)
                /\ written' = written \cup {"sections"}
                /\ next' = writers
           ELSE UNCHANGED <<sections, written, next>>
    /\ lastStep' = "conduct_interview"
    /\ UNCHANGED <<topic, max_analysts, human_analyst_feedback, analysts,
                   introduction, content, conclusion, final_report, mode,
                   sends, generated, fanouts, previous>>

\* a faulty variant: a writer that ran stays scheduled with the others
after_writer_keeps(node) ==
    IF next \ {node} = {} THEN {"finalize_report"} ELSE next

\* a faulty variant: finalize_report follows each writer, not all of them
after_first_writer(node) == {"finalize_report"}

\* builder.add_edge([...the three writers...], "finalize_report")
after_writer(node) ==
    IF next \ {node} = {} THEN {"finalize_report"} ELSE next \ {node}

\* write_report: return {"content": report}
write_report ==
    /\ mode = "running"
    /\ "write_report" \in next
    /\ "sections" \in written
    /\ \E report \in ReportCompletions :
        content' = report
    /\ written' = written \cup {"content"}
    /\ next' = after_writer("write_report")
    /\ lastStep' = "write_report"
    /\ UNCHANGED <<topic, max_analysts, human_analyst_feedback, analysts,
                   sections, introduction, conclusion, final_report, mode,
                   sends, memos, generated, fanouts, completion, previous>>

\* write_introduction: return {"introduction": introduction.content}
write_introduction ==
    /\ mode = "running"
    /\ "write_introduction" \in next
    /\ "sections" \in written
    /\ \E reply \in IntroCompletions :
        introduction' = Str(reply.text)
    /\ written' = written \cup {"introduction"}
    /\ next' = after_writer("write_introduction")
    /\ lastStep' = "write_introduction"
    /\ UNCHANGED <<topic, max_analysts, human_analyst_feedback, analysts,
                   sections, content, conclusion, final_report, mode,
                   sends, memos, generated, fanouts, completion, previous>>

\* write_conclusion: return {"conclusion": conclusion.content}
write_conclusion ==
    /\ mode = "running"
    /\ "write_conclusion" \in next
    /\ "sections" \in written
    /\ \E reply \in ConclCompletions :
        conclusion' = Str(reply.text)
    /\ written' = written \cup {"conclusion"}
    /\ next' = after_writer("write_conclusion")
    /\ lastStep' = "write_conclusion"
    /\ UNCHANGED <<topic, max_analysts, human_analyst_feedback, analysts,
                   sections, introduction, content, final_report, mode,
                   sends, memos, generated, fanouts, completion, previous>>

\* finalize_report: str methods on content, then the edge to END; on a content
\* that is no str, content.startswith raises and the run fails in this node
finalize_report ==
    /\ mode = "running"
    /\ next = {"finalize_report"}
    /\ IF /\ {"content", "introduction", "conclusion"} \subseteq written
          /\ content.kind = "str"
          /\ introduction.kind = "str"
          /\ conclusion.kind = "str"
       THEN /\ final_report' = Str(finalize_text(content.text,
                                   introduction.text, conclusion.text))
            /\ written' = written \cup {"final_report"}
            /\ next' = {}
            /\ mode' = "ended"
       ELSE /\ mode' = "failed"
            /\ UNCHANGED <<final_report, written, next>>
    /\ lastStep' = "finalize_report"
    /\ UNCHANGED <<topic, max_analysts, human_analyst_feedback, analysts,
                   sections, introduction, content, conclusion, sends, memos,
                   generated, fanouts, completion, previous>>

\* graph.stream(None, thread) on a run that has stopped: nothing to do once
\* the graph reached END; after a failure the failed node is run again
stream ==
    /\ mode \in {"ended", "failed"}
    /\ IF mode = "failed"
       THEN /\ mode' = "running"
            /\ lastStep' = "stream"
       ELSE UNCHANGED <<mode, lastStep>>
    /\ UNCHANGED <<fields, next, sends, memos, generated, fanouts,
                   completion, previous>>

(***************************************************************************)
(* The workflow: one run of the graph on one thread.                       *)
(***************************************************************************)
Init ==
    /\ topic \in Topics
    /\ max_analysts \in 1..MaxAnalystsArg
    /\ human_analyst_feedback = ""
    /\ analysts = <<>>
    /\ sections = <<>>
    /\ introduction = Unset
    /\ content = Unset
    /\ conclusion = Unset
    /\ final_report = Unset
    /\ written = {"topic", "max_analysts"}
    /\ next = {"create_analysts"}
    /\ mode = "running"
    /\ sends = <<>>
    /\ memos = <<>>
    /\ generated = <<>>
    /\ lastStep = "start"
    /\ fanouts = 0
    /\ completion = <<>>
    /\ previous = <<>>

Next ==
    \/ create_analysts
    \/ update_state
    \/ human_feedback
    \/ conduct_interview
    \/ write_report
    \/ write_introduction
    \/ write_conclusion
    \/ finalize_report
    \/ stream

Spec == Init /\ [][Next]_vars


(***************************************************************************)
(* finalize_report on its own: the node applied to every report, of a      *)
(* bounded set of texts, that the state can hold as three strings.         *)
(***************************************************************************)
\* the texts of at most n characters of the alphabet
TextsUpTo(alphabet, n) == UNION {[1..k -> alphabet] : k \in 0..n}

Bodies == TextsUpTo({"B", "s", NL}, MaxBody) \cup {Body}

SourceTexts == TextsUpTo({"A", "s"}, MaxBody) \cup {SourceA}

\* nothing, the header, the header and its line end
Heads == {<<>>, INSIGHTS, INSIGHTS \o <<NL>>}

\* reports without a Sources section, with one, with the header inside a
\* line, with two sections, and with two headers on adjacent lines
Reports ==
    {h \o b : h \in Heads, b \in Bodies}
    \cup {h \o b \o SOURCES_SPLIT \o s :
            h \in Heads, b \in Bodies, s \in SourceTexts}
    \cup {h \o b \o <<" ">> \o SOURCES \o s :
            h \in Heads, b \in {<<>>, Body}, s \in SourceTexts}
    \cup {h \o b \o SOURCES_SPLIT \o s \o SOURCES_SPLIT \o SourceA :
            h \in Heads, b \in {<<>>, Body}, s \in SourceTexts}
    \cup {h \o b \o <<NL>> \o SOURCES \o SOURCES_SPLIT \o s :
            h \in Heads, b \in {<<>>, Body}, s \in SourceTexts}

InitFinalize ==
    /\ topic \in Topics
    /\ max_analysts = 1
    /\ human_analyst_feedback = ""
    /\ analysts = <<"analyst_a">>
    /\ sections = <<"M1 [1]">>
    /\ introduction \in {Str(Intro), Str(<<>>)}
    /\ content \in {Str(r) : r \in Reports}
    /\ conclusion = Str(Concl)
    /\ final_report = Unset
    /\ written = {"topic", "max_analysts", "analysts", "sections",
                  "introduction", "content", "conclusion"}
    /\ next = {"finalize_report"}
    /\ mode = "running"
    /\ sends = <<Send("analyst_a", topic)>>
    /\ memos = <<[done |-> TRUE, memo |-> "M1 [1]"]>>
    /\ generated = <<"analyst_a">>
    /\ lastStep = "write_report"
    /\ fanouts = 1
    /\ completion = <<1>>
    /\ previous = <<>>

NextFinalize == finalize_report

SpecFinalize == InitFinalize /\ [][NextFinalize]_vars

(***************************************************************************)
(* Properties.                                                             *)
(***************************************************************************)
Finalized == "final_report" \in written

\* "## Insights\n" + b + "\n## Sources\n" + s
InsightsReport(b, s) == INSIGHTS \o <<NL>> \o b \o SOURCES_SPLIT \o s

\* C1 as stated: on content "## Insights\n" + B + "\n## Sources\n" + S the
\* final report is introduction + separator + B + separator + conclusion +
\* separator + "## Sources\n\n" + S, with nothing before or after B.
C1_Original ==
    \A b \in Bodies, s \in SourceTexts :
        (Finalized /\ content.text = InsightsReport(b, s))
        => final_report.text =
               introduction.text \o SEPARATOR \o b \o SEPARATOR
                   \o conclusion.text \o SOURCES_TAIL \o s

\* C1 amended: on such a content the body of the final report is "\n" + B
\* (the line end after the header stays) and the sources are S without its
\* trailing characters of "## Insights"; the example yields
\* "Intro\n\n---\n\n\nBody\n\n---\n\nConcl\n\n---\n\n## Sources\n\n[1] A".
C1_Amended ==
    \A b \in Bodies, s \in SourceTexts :
        (Finalized /\ content.text = InsightsReport(b, s))
        => final_report.text =
               introduction.text \o SEPARATOR \o <<NL>> \o b \o SEPARATOR
                   \o conclusion.text \o SOURCES_TAIL
                   \o rstrip(s, CharsOf(INSIGHTS))

\* the example of C1 has been finalized
C1_Witness ==
    /\ Finalized
    /\ content.text = ExampleContent
    /\ introduction.text = Intro
    /\ conclusion.text = Concl
    /\ final_report.text =
           Intro \o SEPARATOR \o <<NL>> \o Body \o SEPARATOR \o Concl
               \o SOURCES_TAIL \o SourceA

\* C2 as stated: a content without "## Sources" is found whole between the
\* separators of the final report, which has no Sources section.
C2_Original ==
    (Finalized /\ ~contains(content.text, SOURCES))
    => final_report.text =
           introduction.text \o SEPARATOR \o content.text \o SEPARATOR
               \o conclusion.text

\* c is "## Insights" followed by some text
HasHeader(c) ==
    \E k \in 0..Len(c) : c = INSIGHTS \o SubSeq(c, Len(c) - k + 1, Len(c))

\* c without its leading and its trailing characters of the set
IsStripped(c, body, chars) ==
    \E i \in 1..(Len(c) + 1), j \in 0..Len(c) :
        /\ i <= j + 1
        /\ body = SubSeq(c, i, j)
        /\ \A k \in 1..(i - 1) : c[k] \in chars
        /\ \A k \in (j + 1)..Len(c) : c[k] \in chars
        /\ body # <<>> => (c[i] \notin chars /\ c[j] \notin chars)

\* C2 amended: for a content without "## Sources" the final report is
\* introduction + separator + body + separator + conclusion and nothing more;
\* body is the content unchanged when the content does not start with
\* "## Insights", and otherwise the content without its leading and trailing
\* characters of "## Insights".
C2_Amended ==
    (Finalized /\ ~contains(content.text, SOURCES))
    => \E body \in {SubSeq(content.text, i, j) :
                        i \in 1..(Len(content.text) + 1),
                        j \in 0..Len(content.text)} :
        /\ final_report.text =
               introduction.text \o SEPARATOR \o body \o SEPARATOR
                   \o conclusion.text
        /\ IF HasHeader(content.text)
           THEN IsStripped(content.text, body, CharsOf(INSIGHTS))
           ELSE body = content.text

\* a content without "## Sources" and without the header, ending in characters
\* of the header, has been finalized unchanged
C2_Witness ==
    /\ Finalized
    /\ content.text = <<"s", "B">>
    /\ final_report.text =
           introduction.text \o SEPARATOR \o <<"s", "B">> \o SEPARATOR
               \o conclusion.text


\* the steps by which the outside resumes a suspended run
ResumeSteps == {"update_state", "human_feedback"}

\* the Sends of one interview per analyst of the panel
OnePerAnalyst(panel, t) == [i \in DOMAIN panel |-> Send(panel[i], t)]

\* C3: once the gate is passed with empty feedback there is exactly one
\* conduct_interview Send per analyst of the panel create_analysts stored,
\* the i-th Send carrying the i-th analyst.
C3_OneInterviewPerAnalyst ==
    fanouts >= 1
    => /\ analysts = generated
       /\ Len(sends) = Len(analysts)
       /\ \A i \in DOMAIN sends :
            /\ sends[i].node = "conduct_interview"
            /\ sends[i].arg.analyst = analysts[i]

\* a panel of different analysts has been fanned out
C3_Witness ==
    /\ fanouts = 1
    /\ Len(analysts) >= 2
    /\ Len(sends) = Len(analysts)
    /\ sends[1].arg.analyst # sends[2].arg.analyst

\* the multiset of the elements of a sequence
BagOfSeq(q) ==
    [x \in {q[i] : i \in DOMAIN q} |-> Cardinality({i \in DOMAIN q : q[i] = x})]

IsPrefix(a, b) == Len(a) <= Len(b) /\ SubSeq(b, 1, Len(a)) = a

\* every dispatched interview has completed and the writes are merged
FanInDone ==
    /\ fanouts >= 1
    /\ sends # <<>>
    /\ \A i \in DOMAIN memos : memos[i].done

\* C4: in whatever order the interviews complete, after the fan-in sections
\* holds exactly the produced memos as a multiset, and sections only grows.
C4_SectionsMerge ==
    /\ [](FanInDone =>
            BagOfSeq(sections)
                = BagOfSeq([i \in DOMAIN memos |-> memos[i].memo]))
    /\ [][IsPrefix(sections, sections')]_vars

\* two interviews completed against the order of their Sends, with
\* different memos, and both memos are in sections
C4_Witness ==
    /\ FanInDone
    /\ Len(completion) >= 2
    /\ completion[1] > completion[2]
    /\ Len(sections) = Len(sends)
    /\ memos[1].memo # memos[2].memo

\* C5: a resume with non-empty feedback schedules create_analysts and no
\* interview, the step after it is create_analysts, and analysts then holds
\* the fresh response alone.
C5_FeedbackRegenerates ==
    /\ [][(mode = "suspended" /\ lastStep' \in ResumeSteps /\ truthy(Feedback'))
            => /\ next' = {"create_analysts"}
               /\ mode' = "running"
               /\ fanouts' = fanouts
               /\ sends' = sends]_vars
    /\ [][(lastStep \in ResumeSteps /\ truthy(Feedback))
            => /\ lastStep' = "create_analysts"
               /\ analysts' = generated']_vars

\* a panel was regenerated on feedback and differs from the one it replaced
C5_Witness ==
    /\ lastStep = "create_analysts"
    /\ truthy(Feedback)
    /\ previous # <<>>
    /\ analysts # <<>>
    /\ analysts = generated
    /\ Len(analysts) < Len(previous)

C7_SuspendsBeforeGate ==
    /\ [][lastStep' = "create_analysts"
            => /\ mode' = "suspended"
               /\ next' = {"human_feedback"}
               /\ fanouts' = fanouts
               /\ sends' = sends]_vars
    /\ [][mode = "suspended" => lastStep' \in ResumeSteps]_vars

\* the run is suspended again after a regeneration
C7_Witness ==
    /\ mode = "suspended"
    /\ lastStep = "create_analysts"
    /\ truthy(Feedback)
    /\ previous # <<>>

\* C8: interviews are fanned out only with empty or absent feedback, and a
\* resume with None and one with "" both fan out the current panel and do
\* not schedule create_analysts.
C8_EmptyFeedbackProceeds ==
    /\ [](fanouts >= 1 => Feedback \in {NoneValue, ""})
    /\ [][(mode = "suspended" /\ lastStep' \in ResumeSteps
                /\ Feedback' \in {NoneValue, ""})
            => /\ fanouts' = fanouts + 1
               /\ sends' = OnePerAnalyst(analysts, topic)
               /\ analysts' = analysts
               /\ "create_analysts" \notin next']_vars

\* a resume with None has fanned out a panel
C8_Witness ==
    /\ fanouts = 1
    /\ "human_analyst_feedback" \in written
    /\ human_analyst_feedback = NoneValue
    /\ lastStep = "update_state"
    /\ Len(sends) >= 1

\* C9 as stated: the panel create_analysts writes has at most max_analysts
\* analysts.
C9_Original ==
    "analysts" \in written => Len(analysts) <= max_analysts

\* C10 as stated: a run resumed with empty feedback on a panel stops only at
\* the end of the graph, with final_report populated.
C10_Original ==
    (fanouts >= 1 /\ sends # <<>> /\ mode \in {"ended", "failed"})
    => (mode = "ended" /\ Finalized)

\* C11 as stated: the content write_report stores is a string, like the
\* introduction and the conclusion, so finalize_report receives three strings.
C11_Original ==
    "content" \in written => content.kind = "str"

(***************************************************************************)
(* The workflow with a structured call that may fail.                      *)
(***************************************************************************)
\* a faulty variant: the error is swallowed and the graph goes on to the gate
swallowed_in(node) == [mode |-> "suspended", next |-> {"human_feedback"}]

\* an exception leaves the node: the run fails and the node stays next
raised_in(node) == [mode |-> "failed", next |-> {node}]

\* create_analysts when structured_llm.invoke raises: nothing is returned
create_analysts_raises ==
    /\ mode = "running"
    /\ next = {"create_analysts"}
    /\ mode' = raised_in("create_analysts").mode
    /\ next' = raised_in("create_analysts").next
    /\ lastStep' = "create_analysts raised"
    /\ UNCHANGED <<fields, sends, memos, generated, fanouts, completion,
                   previous>>

NextFaults == Next \/ create_analysts_raises

SpecFaults == Init /\ [][NextFaults]_vars

\* C12: when the structured call of create_analysts fails, the run fails with
\* create_analysts still next, analysts and every other field keep their
\* values, and nothing runs afterwards until the caller streams again.
C12_FailurePropagates ==
    /\ [][lastStep' = "create_analysts raised"
            => /\ mode' = "failed"
               /\ next' = {"create_analysts"}
               /\ analysts' = analysts
               /\ UNCHANGED <<fields, sends, fanouts>>]_vars
    /\ [][(mode = "failed" /\ lastStep = "create_analysts raised")
            => lastStep' = "stream"]_vars

\* a regeneration failed and the panel of the cycle before is still there
C12_Witness ==
    /\ mode = "failed"
    /\ lastStep = "create_analysts raised"
    /\ next = {"create_analysts"}
    /\ analysts # <<>>
    /\ analysts = generated
    /\ fanouts = 0

(***************************************************************************)
(* The Sources split and the header strip of finalize_report.              *)
(***************************************************************************)
\* the places where sub occurs in c
Occurrences(c, sub) ==
    {i \in 1..Len(c) :
        /\ i + Len(sub) - 1 <= Len(c)
        /\ SubSeq(c, i, i + Len(sub) - 1) = sub}

\* content after step 1 of finalize_report: behind the header, what lies
\* between the first and the last character that is none of "## Insights"
AfterStep1(c) ==
    LET keep == {k \in 1..Len(c) : c[k] \notin CharsOf(INSIGHTS)}
        lo == CHOOSE k \in keep : \A m \in keep : k <= m
        hi == CHOOSE k \in keep : \A m \in keep : k >= m
    IN  IF ~HasHeader(c) THEN c
        ELSE IF keep = {} THEN <<>>
        ELSE SubSeq(c, lo, hi)

\* the first place of "\n## Sources\n" in c
FirstMarker(c) ==
    CHOOSE i \in Occurrences(c, SOURCES_SPLIT) :
        \A j \in Occurrences(c, SOURCES_SPLIT) : i <= j

BeforeMarker(c) == SubSeq(c, 1, FirstMarker(c) - 1)

AfterMarker(c) == SubSeq(c, FirstMarker(c) + Len(SOURCES_SPLIT), Len(c))

\* the marker occurs in c and not again in the text after its first place
SplitsInTwo(c) ==
    /\ Occurrences(c, SOURCES_SPLIT) # {}
    /\ Occurrences(AfterMarker(c), SOURCES_SPLIT) = {}

Unsplit(c) ==
    introduction.text \o SEPARATOR \o c \o SEPARATOR \o conclusion.text

\* C13 as stated (on contents without the header): whenever "\n## Sources\n"
\* occurs, once or more often, the report is split at the first occurrence.
C13_Original ==
    (/\ Finalized
     /\ ~HasHeader(content.text)
     /\ Occurrences(content.text, SOURCES_SPLIT) # {})
    => final_report.text =
           Unsplit(BeforeMarker(content.text)) \o SOURCES_TAIL
               \o AfterMarker(content.text)

\* C13 amended: when "\n## Sources\n" occurs in the content (as step 1 left
\* it) and not again in the text after its first occurrence, the body is the
\* text before it, the sources are all the text after it and the report ends
\* with "\n\n---\n\n## Sources\n\n" + sources; when it occurs again after the
\* first occurrence the content is not split and no Sources section follows.
C13_Amended ==
    LET c == AfterStep1(content.text)
    IN  (Finalized /\ Occurrences(c, SOURCES_SPLIT) # {})
        => final_report.text =
               IF SplitsInTwo(c)
               THEN Unsplit(BeforeMarker(c)) \o SOURCES_TAIL \o AfterMarker(c)
               ELSE Unsplit(c)

\* a report with two Sources sections has been finalized unsplit
C13_Witness ==
    /\ Finalized
    /\ content.text =
           Body \o SOURCES_SPLIT \o <<"A">> \o SOURCES_SPLIT \o SourceA
    /\ final_report.text = Unsplit(content.text)

\* "## Sources" is in the content and the split does not give two parts
SplitFails(c) ==
    /\ Occurrences(c, SOURCES) # {}
    /\ ~SplitsInTwo(AfterStep1(c))

\* C14: when the content holds "## Sources" and cannot be split into exactly
\* a body and a sources part, finalize_report does not fail and returns
\* introduction + separator + content (as step 1 left it) + separator +
\* conclusion, with no Sources section.
C14_SplitFailsOpen ==
    SplitFails(content.text)
    => /\ mode # "failed"
       /\ lastStep = "finalize_report"
            => /\ Finalized
               /\ final_report.text = Unsplit(AfterStep1(content.text))

\* a report with "## Sources" inside a line has been finalized unsplit
C14_Witness ==
    /\ Finalized
    /\ mode = "ended"
    /\ content.text = Body \o <<" ">> \o SOURCES \o SourceA
    /\ final_report.text = Unsplit(content.text)

\* C15 as stated (on contents without "## Sources"): step 1 drops exactly the
\* 11 characters of a leading "## Insights", nothing from the end, and leaves
\* a content without that prefix untouched.
C15_Original ==
    (Finalized /\ Occurrences(content.text, SOURCES) = {})
    => final_report.text =
           Unsplit(IF HasHeader(content.text)
                   THEN SubSeq(content.text, Len(INSIGHTS) + 1,
                               Len(content.text))
                   ELSE content.text)

(***************************************************************************)
(* The reduce phase and the frame of create_analysts.                      *)
(***************************************************************************)
\* sections holds the memo of every interview, in the order of the Sends
SectionsComplete ==
    /\ "sections" \in written
    /\ Len(sections) = Len(sends)
    /\ \A i \in DOMAIN sends : sections[i] = memos[i].memo

\* C16: a writer starts only after every dispatched interview has completed
\* and its memo is merged, each writer runs once, and sections is the same
\* complete value for all three.
C16_WritersAfterFanIn ==
    /\ [][lastStep' \in writers
            => /\ mode = "running"
               /\ FanInDone
               /\ SectionsComplete
               /\ sections' = sections
               /\ lastStep' \in next
               /\ lastStep' \notin next']_vars
    /\ [][FanInDone
            => /\ sections' = sections
               /\ \A w \in writers : w \notin next => w \notin next']_vars

\* the three writers have run over two memos, write_report last
C16_Witness ==
    /\ FanInDone
    /\ Len(sections) >= 2
    /\ lastStep = "write_report"
    /\ next = {"finalize_report"}
    /\ {"content", "introduction", "conclusion"} \subseteq written

\* C17: finalize_report runs only when the three writers have written
\* content, introduction and conclusion and none of them is still to run,
\* the run stops with it, and whenever it is the node to run it can run.
C17_FinalizeAfterWriters ==
    /\ [][lastStep' = "finalize_report"
            => /\ {"content", "introduction", "conclusion"} \subseteq written
               /\ next = {"finalize_report"}
               /\ lastStep \in writers \cup {"stream"}
               /\ mode' \in {"ended", "failed"}]_vars
    /\ []((mode = "running" /\ "finalize_report" \in next)
            => /\ next = {"finalize_report"}
               /\ ENABLED finalize_report)

\* finalize_report has run after the three writers
C17_Witness ==
    /\ lastStep = "finalize_report"
    /\ {"content", "introduction", "conclusion"} \subseteq written
    /\ next \cap writers = {}
    /\ Len(sections) >= 2

\* a feedback that is neither None nor "" is in the state
HasFeedback ==
    /\ "human_analyst_feedback" \in written
    /\ human_analyst_feedback \notin {NoneValue, ""}

\* C18: create_analysts writes analysts and nothing else, so the feedback
\* that triggered a regeneration is still there at the next suspension, and
\* a resume that does not overwrite it schedules create_analysts again and
\* no interview.
C18_FeedbackPersists ==
    /\ [][lastStep' = "create_analysts"
            => /\ written' = written \cup {"analysts"}
               /\ UNCHANGED <<topic, max_analysts, human_analyst_feedback,
                              sections, introduction, content, conclusion,
                              final_report>>]_vars
    /\ [][(lastStep \in ResumeSteps /\ HasFeedback)
            => (mode' = "suspended" /\ HasFeedback')]_vars
    /\ [][(mode = "suspended" /\ HasFeedback /\ lastStep' = "human_feedback")
            => /\ next' = {"create_analysts"}
               /\ mode' = "running"
               /\ fanouts' = fanouts
               /\ sends' = sends]_vars

\* a resume that left the feedback as it was has scheduled create_analysts
\* again, after a regeneration
C18_Witness ==
    /\ lastStep = "human_feedback"
    /\ HasFeedback
    /\ previous # <<>>
    /\ next = {"create_analysts"}
    /\ fanouts = 0

====
